---- MODULE Spec2Model ----
(***************************************************************************)
(* The embed -> cluster -> score experiment of the embedding-comparison    *)
(* notebooks: one scenario cell that builds the ground-truth labels and    *)
(* the k-nearest-neighbour graph, calls calc_ari once per embedding        *)
(* method, concatenates the three result frames and groups them by method. *)
(*                                                                         *)
(* Three variants of the notebook exist:                                   *)
(*   "gauss"    Gaussian point cloud, graph built once in the cell, the    *)
(*              means are rounded to two decimals                          *)
(*              (embedding_comparison_tutorial.ipynb, first notebook)      *)
(*   "resample" block model, graph rebuilt inside every trial of calc_ari  *)
(*              (embedding_comparison_tutorial.ipynb, second notebook)     *)
(*   "block"    block model, graph built once in the cell (part_000)       *)
(*                                                                         *)
(* Matrices are modelled by their shape; the external collaborators (SVD,  *)
(* embeddings, mixture fitting, Adjusted Rand Index) by their contract: a  *)
(* call either returns a value of the documented shape or raises.  Scores  *)
(* are fixed-point numbers in thousandths.                                 *)
(***************************************************************************)
EXTENDS Integers, Sequences, FiniteSets

\* ------------------------------------------------------------------ bounds
MaxVerts == 5
MaxSims == 2

\* ------------------------------------------------------- program constants
NComponents == 2
CallsPerCell == 3
RoundDecimals == 2

\* the sample counts of the notebooks' scenarios
\* (n_verts_lse, n_vectors_lse, n_verts_ase, n_verts_ase, n_vectors_ase)
ScenarioCounts == {100, 250, 400, 500, 800}
\* the sample counts explored: the scenarios' and every small one, odd or even
SampleCounts == (2..MaxVerts) \cup ScenarioCounts

Variants == {"gauss", "resample", "block"}

\* the block matrices of the notebooks, in thousandths; none in the Gaussian one
B_core == <<<<11, 27>>, <<27, 79>>>>
B_affinity == <<<<50, 13>>, <<13, 51>>>>
NoBlock == <<>>
Blocks(v) == IF v = "gauss" THEN {NoBlock} ELSE {B_core, B_affinity}

\* the scenarios the notebooks run at their full sample counts
NotebookScenarios ==
    {[variant |-> "gauss", n |-> 250, B |-> NoBlock],
     [variant |-> "gauss", n |-> 800, B |-> NoBlock],
     [variant |-> "resample", n |-> 100, B |-> B_affinity],
     [variant |-> "resample", n |-> 500, B |-> B_core],
     [variant |-> "resample", n |-> 100, B |-> B_core],
     [variant |-> "resample", n |-> 500, B |-> B_affinity],
     [variant |-> "block", n |-> 100, B |-> B_core],
     [variant |-> "block", n |-> 400, B |-> B_affinity]}
Recognized == {"ase", "lse", "sklearn"}
Selectors == Recognized \cup {"other"}
\* Adjusted Rand Index values, in thousandths (0.125 and 1.0)
Scores == {125, 1000}

VARIABLES
    variant,        \* which notebook the cell belongs to
    n_verts,        \* sample count of the scenario (n_verts_lse, n_vectors_lse, ...)
    n_sims,         \* trial count
    B,              \* the 2 x 2 block matrix (B_core / B_affinity)
    P,              \* the probability matrix while it is filled (SpecP only)
    labels_true,    \* ground-truth labels (labels_lse / labels_ase)
    kn_graph,       \* the similarity structure, by shape and neighbour count
    graphBuilds,    \* number of kneighbors_graph constructions so far
    pc,             \* position in the cell or inside calc_ari
    called,         \* selectors of the calc_ari calls made so far, in order
    embed_method,   \* calc_ari's selector argument
    i,              \* number of completed trials of the running call
    rows,           \* calc_ari's accumulating list of records
    Xhat,           \* calc_ari's local Xhat (shape, or unbound)
    Yhat,           \* calc_ari's local Yhat (shape, or unbound)
    embedCalls,     \* embedding routines invoked by the running call
    concatCalls,    \* np.concatenate(axis=1) invocations of the running call
    n_pred,         \* number of labels predicted by fit_predict in this trial
    ari,            \* score of the current trial
    dfs,            \* the frames returned by the completed calls, in order
    ari_df,         \* the concatenated frame of the cell
    means,          \* the cell's reported per-method means
    error           \* the exception that ended the cell, "none" if none

vars == <<variant, n_verts, n_sims, B, P, labels_true, kn_graph, graphBuilds, pc,
          called, embed_method, i, rows, Xhat, Yhat, embedCalls, concatCalls,
          n_pred, ari, dfs, ari_df, means, error>>

\* ------------------------------------------------------------ pure helpers
\* a matrix is known by its shape, by the embedding outputs its columns are
\* made of, in order, and by the graph construction it was computed from
Unbound == [bound |-> FALSE, rows |-> 0, cols |-> 0, parts |-> <<>>, graph |-> 0]
Shape(r, c, p, g) == [bound |-> TRUE, rows |-> r, cols |-> c, parts |-> p, graph |-> g]
NoContent == [kind |-> "none", n |-> 0, B |-> NoBlock, draw |-> 0]
NoGraph == [built |-> FALSE, rows |-> 0, k |-> 0, gen |-> 0, content |-> NoContent]
NoFrame == [columns |-> {}, records |-> <<>>]

\* int(n/2)
Half(n) == n \div 2

\* h * [v]
Repeat(v, h) == [j \in 1..h |-> v]

\* int(n/2) * [0] + int(n/2) * [1]
Labels(n) == Repeat(0, Half(n)) \o Repeat(1, Half(n))

\* int(np.sqrt(n)): the square root truncated towards zero
RECURSIVE SqrtFrom(_, _)
SqrtFrom(n, k) == IF (k + 1) * (k + 1) > n THEN k ELSE SqrtFrom(n, k + 1)

\* round(np.sqrt(n)) written for int(np.sqrt(n))
NNeighbors_Round(n) ==
    LET k == SqrtFrom(n, 0)
    IN  IF 4 * n >= (2 * k + 1) * (2 * k + 1) THEN k + 1 ELSE k

NNeighbors(n) == SqrtFrom(n, 0)

\* rows of lat_mat = np.concatenate((X, Y), axis=0)
LatRows(v, n) ==
    IF v = "gauss"
    THEN Half(n) + Half(n)            \* two samples of size int(n/2)
    ELSE Half(n) + (n - Half(n))      \* U[0:int(n/2)] and V.T[int(n/2):n]

\* a graph drawn at random in every construction (e.g. edges sampled from P)
GraphContent_Drawn(v, n, b, g) ==
    [kind |-> "sample", n |-> n, B |-> IF v = "gauss" THEN NoBlock ELSE b, draw |-> g]

\* what decides the entries of the graph: the block-model lat_mat is computed
\* from n and B alone (P, its SVD), the Gaussian one is a fresh random draw
GraphContent(v, n, b, g) ==
    IF v = "gauss"
    THEN [kind |-> "sample", n |-> n, B |-> NoBlock, draw |-> g]
    ELSE [kind |-> "block", n |-> n, B |-> b, draw |-> 0]

\* kneighbors_graph(lat_mat, n_neighbors=k).toarray(): a square 0/1 matrix;
\* g is the serial number of the construction
KnGraph(v, n, b, g) ==
    [built |-> TRUE, rows |-> LatRows(v, n), k |-> NNeighbors(n), gen |-> g,
     content |-> GraphContent(v, n, b, g)]

\* one output of fit_transform / spectral_embedding of an r x r graph:
\* r x n_components
Embedding(g, part) == Shape(g.rows, NComponents, <<part>>, g.gen)

\* axis=0 written for axis=1: the second matrix goes below the first
ConcatAxis1_Axis0(a, b) == Shape(a.rows + b.rows, a.cols, a.parts \o b.parts, a.graph)

\* np.concatenate((a, b), axis=1)
ConcatAxis1(a, b) == Shape(a.rows, a.cols + b.cols, a.parts \o b.parts, a.graph)

\* rows = [result] written for rows.append(result)
AppendRecord_Overwrite(rs, m, s) == <<[test |-> m, ari |-> s]>>

\* {"test": embed_method, "ari": ari}; rows.append(result)
AppendRecord(rs, m, s) == Append(rs, [test |-> m, ari |-> s])

\* rows kept from the previous call (a module-level or default-argument list)
FreshRows_Keep(old) == old

\* rows = [] at the top of calc_ari
FreshRows(old) == <<>>

\* pd.DataFrame(rows): a frame has columns only if there is a record
DataFrame(rs) ==
    [columns |-> IF rs = <<>> THEN {} ELSE {"test", "ari"}, records |-> rs]

\* pd.concat([...]) of a sequence of frames, in order
RECURSIVE ConcatFrames(_)
ConcatFrames(fs) ==
    IF fs = <<>> THEN NoFrame
    ELSE LET rest == ConcatFrames(Tail(fs))
         IN  [columns |-> Head(fs).columns \cup rest.columns,
              records |-> Head(fs).records \o rest.records]

\* ------------------------------------------------------------ aggregation
\* a grouping that keeps every record, whatever its method
Group_All(rs, m) == rs

\* the records of a frame whose "test" field is m, in order
RECURSIVE Group(_, _)
Group(rs, m) ==
    IF rs = <<>> THEN <<>>
    ELSE IF Head(rs).test = m THEN <<Head(rs)>> \o Group(Tail(rs), m)
         ELSE Group(Tail(rs), m)

RECURSIVE SumAri(_)
SumAri(rs) == IF rs = <<>> THEN 0 ELSE Head(rs).ari + SumAri(Tail(rs))

\* the keys df.groupby(["test"]) produces
GroupKeys(rs) == {rs[j].test : j \in 1..Len(rs)}

\* .sum() written for .mean()
Mean_Sum(rs) == [num |-> SumAri(rs), den |-> 1]

\* .mean() of one group: the exact quotient num / den
Mean(rs) == [num |-> SumAri(rs), den |-> Len(rs)]

\* a / b rounded to the nearest integer, ties to the even one (np.round)
RoundHalfEven(a, b) ==
    LET q == a \div b
        r == a % b
    IN  IF 2 * r < b THEN q
        ELSE IF 2 * r > b THEN q + 1
        ELSE IF q % 2 = 0 THEN q ELSE q + 1

RECURSIVE Pow10(_)
Pow10(d) == IF d = 0 THEN 1 ELSE 10 * Pow10(d - 1)

\* .round(2) of a quotient of thousandths: a whole number of hundredths
Round(q) ==
    LET step == Pow10(3 - RoundDecimals)
    IN  [num |-> step * RoundHalfEven(q.num, q.den * step), den |-> 1]

\* what the cell reports for one group
Reported(v, rs) == IF v = "gauss" THEN Round(Mean(rs)) ELSE Mean(rs)

\* df.groupby(["test"]).mean() (.round(2) in the Gaussian notebook)
GroupMeans(v, df) ==
    [m \in GroupKeys(df.records) |-> Reported(v, Group(df.records, m))]

\* ------------------------------------------------------------------ state
Init ==
    /\ variant \in Variants
    /\ n_verts \in SampleCounts
    /\ n_sims \in 0..MaxSims
    /\ B \in Blocks(variant)
    /\ \/ n_verts <= MaxVerts
       \/ [variant |-> variant, n |-> n_verts, B |-> B] \in NotebookScenarios
    /\ P = <<>>
    /\ labels_true = <<>>
    /\ kn_graph = NoGraph
    /\ graphBuilds = 0
    /\ pc = "cell_labels"
    /\ called = <<>>
    /\ embed_method = "none"
    /\ i = 0
    /\ rows = <<>>
    /\ Xhat = Unbound
    /\ Yhat = Unbound
    /\ embedCalls = 0
    /\ concatCalls = 0
    /\ n_pred = 0
    /\ ari = 0
    /\ dfs = <<>>
    /\ ari_df = NoFrame
    /\ means = <<>>
    /\ error = "none"

scenario == <<variant, n_verts, n_sims, B, P>>
locals == <<embed_method, i, rows, Xhat, Yhat, embedCalls, concatCalls, n_pred, ari>>
cell == <<called, dfs, ari_df, means>>

\* the exception caught inside the loop ("except: continue"): the run goes on
Raise_Continue(e) == pc' = "ca_loop" /\ error' = e

\* an exception leaves calc_ari and ends the cell
Raise(e) == pc' = "failed" /\ error' = e

\* -------------------------------------------------------- the scenario cell
\* labels = int(n/2) * [0] + int(n/2) * [1]
BuildLabels ==
    /\ pc = "cell_labels"
    /\ labels_true' = Labels(n_verts)
    /\ pc' = IF variant = "resample" THEN "cell_call" ELSE "cell_graph"
    /\ UNCHANGED <<scenario, kn_graph, graphBuilds, locals, cell, error>>

\* lat_mat, then kn_graph = kneighbors_graph(lat_mat, int(sqrt(n))).toarray()
BuildGraph ==
    /\ pc = "cell_graph"
    /\ \/ /\ kn_graph' = KnGraph(variant, n_verts, B, graphBuilds + 1)
          /\ graphBuilds' = graphBuilds + 1
          /\ pc' = "cell_call"
          /\ UNCHANGED error
       \/ /\ Raise("CollaboratorError")
          /\ UNCHANGED <<kn_graph, graphBuilds>>
    /\ UNCHANGED <<scenario, labels_true, locals, cell>>

\* xxx_df = calc_ari(..., embed_method = m, ...): a new frame of locals
CallCalcAri(m) ==
    /\ pc = "cell_call"
    /\ Len(called) < CallsPerCell
    /\ \A j \in 1..Len(called) : called[j] # m
    /\ called' = Append(called, m)
    /\ embed_method' = m
    /\ rows' = FreshRows(rows)
    /\ i' = 0
    /\ Xhat' = Unbound
    /\ Yhat' = Unbound
    /\ embedCalls' = 0
    /\ concatCalls' = 0
    /\ pc' = "ca_loop"
    /\ UNCHANGED <<scenario, labels_true, kn_graph, graphBuilds, n_pred, ari,
                   dfs, ari_df, means, error>>

\* ------------------------------------------------------------------ calc_ari
\* range(n_sims + 1) written for range(n_sims)
LoopHead_OneMore ==
    /\ pc = "ca_loop"
    /\ pc' = IF i <= n_sims
             THEN IF variant = "resample" THEN "ca_graph" ELSE "ca_embed"
             ELSE "ca_return"
    /\ UNCHANGED <<scenario, labels_true, kn_graph, graphBuilds, locals, cell, error>>

\* a loop that tests its bound after the body: one trial runs even for n_sims = 0
LoopHead_TestAfterBody ==
    /\ pc = "ca_loop"
    /\ pc' = IF i < n_sims \/ i = 0
             THEN IF variant = "resample" THEN "ca_graph" ELSE "ca_embed"
             ELSE "ca_return"
    /\ UNCHANGED <<scenario, labels_true, kn_graph, graphBuilds, locals, cell, error>>

\* "return results" indented into the loop body: the call ends after one trial
LoopHead_ReturnInLoop ==
    /\ pc = "ca_loop"
    /\ pc' = IF i < n_sims /\ i = 0
             THEN IF variant = "resample" THEN "ca_graph" ELSE "ca_embed"
             ELSE "ca_return"
    /\ UNCHANGED <<scenario, labels_true, kn_graph, graphBuilds, locals, cell, error>>

\* every notebook's loop rebuilding the graph, as the resampling one does
LoopHead_Rebuild ==
    /\ pc = "ca_loop"
    /\ pc' = IF i < n_sims THEN "ca_graph" ELSE "ca_return"
    /\ UNCHANGED <<scenario, labels_true, kn_graph, graphBuilds, locals, cell, error>>

\* for _ in range(n_sims): the next trial, or the end of the loop
LoopHead ==
    /\ pc = "ca_loop"
    /\ pc' = IF i < n_sims
             THEN IF variant = "resample" THEN "ca_graph" ELSE "ca_embed"
             ELSE "ca_return"
    /\ UNCHANGED <<scenario, labels_true, kn_graph, graphBuilds, locals, cell, error>>

\* a construction guarded by "if kn_graph is None": later trials reuse it
TrialGraph_Cached ==
    /\ pc = "ca_graph"
    /\ IF kn_graph.built
       THEN UNCHANGED <<kn_graph, graphBuilds>>
       ELSE /\ kn_graph' = KnGraph(variant, n_verts, B, graphBuilds + 1)
            /\ graphBuilds' = graphBuilds + 1
    /\ pc' = "ca_embed"
    /\ UNCHANGED <<scenario, labels_true, locals, cell, error>>

\* the resampling notebook rebuilds P, lat_mat and kn_graph inside the trial
TrialGraph ==
    /\ pc = "ca_graph"
    /\ \/ /\ kn_graph' = KnGraph(variant, n_verts, B, graphBuilds + 1)
          /\ graphBuilds' = graphBuilds + 1
          /\ pc' = "ca_embed"
          /\ UNCHANGED error
       \/ /\ Raise("CollaboratorError")
          /\ UNCHANGED <<kn_graph, graphBuilds>>
    /\ UNCHANGED <<scenario, labels_true, locals, cell>>

\* the last branch written as a plain else: any other selector embeds too
Dispatch_ElseSklearn ==
    /\ pc = "ca_embed"
    /\ \/ /\ embed_method \in {"ase", "lse"}
          /\ Xhat' = Embedding(kn_graph, "X")
          /\ Yhat' = Embedding(kn_graph, "Y")
       \/ /\ embed_method \notin {"ase", "lse"}
          /\ Xhat' = Embedding(kn_graph, "S")
          /\ UNCHANGED Yhat
    /\ embedCalls' = embedCalls + 1
    /\ pc' = "ca_concat"
    /\ UNCHANGED <<scenario, labels_true, kn_graph, graphBuilds, embed_method, i,
                   rows, concatCalls, n_pred, ari, cell, error>>

\* if / elif / elif on embed_method: no branch is taken for any other value
Dispatch ==
    /\ pc = "ca_embed"
    /\ \/ /\ embed_method \in {"ase", "lse"}
          /\ \/ /\ Xhat' = Embedding(kn_graph, "X")
                /\ Yhat' = Embedding(kn_graph, "Y")
                /\ embedCalls' = embedCalls + 1
                /\ pc' = "ca_concat"
                /\ UNCHANGED error
             \/ /\ Raise("CollaboratorError")
                /\ UNCHANGED <<Xhat, Yhat, embedCalls>>
       \/ /\ embed_method = "sklearn"
          /\ \/ /\ Xhat' = Embedding(kn_graph, "S")
                /\ embedCalls' = embedCalls + 1
                /\ pc' = "ca_concat"
                /\ UNCHANGED <<Yhat, error>>
             \/ /\ Raise("CollaboratorError")
                /\ UNCHANGED <<Xhat, Yhat, embedCalls>>
       \/ /\ embed_method \notin Recognized
          /\ pc' = "ca_concat"
          /\ UNCHANGED <<Xhat, Yhat, embedCalls, error>>
    /\ UNCHANGED <<scenario, labels_true, kn_graph, graphBuilds, embed_method, i,
                   rows, concatCalls, n_pred, ari, cell>>

\* if embed_method == "ase" or embed_method == "lse": Xhat = concatenate(...)
Concatenate ==
    /\ pc = "ca_concat"
    /\ IF embed_method = "ase" \/ embed_method = "lse"
       THEN /\ Xhat' = ConcatAxis1(Xhat, Yhat)
            /\ concatCalls' = concatCalls + 1
       ELSE UNCHANGED <<Xhat, concatCalls>>
    /\ pc' = "ca_cluster"
    /\ UNCHANGED <<scenario, labels_true, kn_graph, graphBuilds, embed_method, i,
                   rows, Yhat, embedCalls, n_pred, ari, cell, error>>

\* labels_mclust = gm_ic.fit_predict(Xhat): reading an unbound Xhat raises
Cluster ==
    /\ pc = "ca_cluster"
    /\ IF ~Xhat.bound
       THEN /\ Raise("UnboundLocalError")
            /\ UNCHANGED n_pred
       ELSE \/ /\ n_pred' = Xhat.rows
               /\ pc' = "ca_score"
               /\ UNCHANGED error
            \/ /\ Raise("CollaboratorError")
               /\ UNCHANGED n_pred
    /\ UNCHANGED <<scenario, labels_true, kn_graph, graphBuilds, embed_method, i,
                   rows, Xhat, Yhat, embedCalls, concatCalls, ari, cell>>

\* ari = adjusted_rand_score(labels_true, labels_mclust)
Score ==
    /\ pc = "ca_score"
    /\ IF Len(labels_true) # n_pred
       THEN /\ Raise("ValueError")
            /\ UNCHANGED ari
       ELSE /\ \E s \in Scores : ari' = s
            /\ pc' = "ca_record"
            /\ UNCHANGED error
    /\ UNCHANGED <<scenario, labels_true, kn_graph, graphBuilds, embed_method, i,
                   rows, Xhat, Yhat, embedCalls, concatCalls, n_pred, cell>>

\* result = {"test": ..., "ari": ...}; rows.append(result)
Record ==
    /\ pc = "ca_record"
    /\ rows' = AppendRecord(rows, embed_method, ari)
    /\ i' = i + 1
    /\ pc' = "ca_loop"
    /\ UNCHANGED <<scenario, labels_true, kn_graph, graphBuilds, embed_method,
                   Xhat, Yhat, embedCalls, concatCalls, n_pred, ari, cell, error>>

\* results = pd.DataFrame(rows); return results
Return ==
    /\ pc = "ca_return"
    /\ dfs' = Append(dfs, DataFrame(rows))
    /\ pc' = IF Len(called) < CallsPerCell THEN "cell_call" ELSE "cell_concat"
    /\ UNCHANGED <<scenario, labels_true, kn_graph, graphBuilds, locals, called,
                   ari_df, means, error>>

\* ari_df = pd.concat([df1, df2, df3])
ConcatResults ==
    /\ pc = "cell_concat"
    /\ ari_df' = ConcatFrames(dfs)
    /\ pc' = "cell_groupby"
    /\ UNCHANGED <<scenario, labels_true, kn_graph, graphBuilds, locals, called,
                   dfs, means, error>>

\* ari_means = ari_df.groupby(["test"]).mean(): no "test" column, no grouping
GroupBy ==
    /\ pc = "cell_groupby"
    /\ IF "test" \notin ari_df.columns
       THEN /\ Raise("KeyError")
            /\ UNCHANGED means
       ELSE /\ means' = GroupMeans(variant, ari_df)
            /\ pc' = "done"
            /\ UNCHANGED error
    /\ UNCHANGED <<scenario, labels_true, kn_graph, graphBuilds, locals, called,
                   dfs, ari_df>>

\* ----------------------------------------------- the probability matrix
\* The block-model notebooks fill an n x n matrix from B by four slice
\* assignments.  A cell is its value and the number of assignments it got.
BlockValues == {0, 11, 79}
BlockMatrices ==
    {<<<<a, b>>, <<c, d>>>> : a \in BlockValues, b \in BlockValues,
                              c \in BlockValues, d \in BlockValues}

\* np.zeros((n, n))
Zeros(n) == [r \in 1..n |-> [c \in 1..n |-> [v |-> 0, w |-> 0]]]

\* M[r0:r1, c0:c1] = val (rows r0+1..r1 and columns c0+1..c1, counted from 1)
SliceAssign(M, r0, r1, c0, c1, val) ==
    [r \in DOMAIN M |->
        [c \in DOMAIN M[r] |->
            IF r0 < r /\ r <= r1 /\ c0 < c /\ c <= c1
            THEN [v |-> val, w |-> M[r][c].w + 1]
            ELSE M[r][c]]]

filling == <<variant, n_verts, n_sims, B, labels_true, kn_graph, graphBuilds,
             locals, cell, error>>

InitP ==
    /\ variant \in {"resample", "block"}
    /\ n_verts \in 2..MaxVerts
    /\ n_sims \in 0..MaxSims
    /\ B \in BlockMatrices
    /\ P = <<>>
    /\ labels_true = Labels(n_verts)
    /\ kn_graph = NoGraph
    /\ graphBuilds = 0
    /\ pc = "p_zeros"
    /\ called = <<>>
    /\ embed_method = "none"
    /\ i = 0
    /\ rows = <<>>
    /\ Xhat = Unbound
    /\ Yhat = Unbound
    /\ embedCalls = 0
    /\ concatCalls = 0
    /\ n_pred = 0
    /\ ari = 0
    /\ dfs = <<>>
    /\ ari_df = NoFrame
    /\ means = <<>>
    /\ error = "none"

\* P = np.zeros((n_verts, n_verts))
ZerosP ==
    /\ pc = "p_zeros"
    /\ P' = Zeros(n_verts)
    /\ pc' = "p_top_left"
    /\ UNCHANGED filling

\* P[0:int(n/2), 0:int(n/2)] = B[0, 0]
FillTopLeft ==
    /\ pc = "p_top_left"
    /\ P' = SliceAssign(P, 0, Half(n_verts), 0, Half(n_verts), B[1][1])
    /\ pc' = "p_bottom_right"
    /\ UNCHANGED filling

\* P[int(n/2):n, int(n/2):n] = B[1, 1]
FillBottomRight ==
    /\ pc = "p_bottom_right"
    /\ P' = SliceAssign(P, Half(n_verts), n_verts, Half(n_verts), n_verts, B[2][2])
    /\ pc' = "p_top_right"
    /\ UNCHANGED filling

\* the column slice of the first assignment copied: P[0:int(n/2), 0:int(n/2)]
FillTopRight_CopiedSlice ==
    /\ pc = "p_top_right"
    /\ P' = SliceAssign(P, 0, Half(n_verts), 0, Half(n_verts), B[1][2])
    /\ pc' = "p_bottom_left"
    /\ UNCHANGED filling

\* P[0:int(n/2), int(n/2):n] = B[0, 1]
FillTopRight ==
    /\ pc = "p_top_right"
    /\ P' = SliceAssign(P, 0, Half(n_verts), Half(n_verts), n_verts, B[1][2])
    /\ pc' = "p_bottom_left"
    /\ UNCHANGED filling

\* P[int(n/2):n, 0:int(n/2)] = B[1, 0]
FillBottomLeft ==
    /\ pc = "p_bottom_left"
    /\ P' = SliceAssign(P, Half(n_verts), n_verts, 0, Half(n_verts), B[2][1])
    /\ pc' = "p_filled"
    /\ UNCHANGED filling

NextP ==
    \/ ZerosP
    \/ FillTopLeft
    \/ FillBottomRight
    \/ FillTopRight
    \/ FillBottomLeft

SpecP == InitP /\ [][NextP]_vars

Next ==
    \/ BuildLabels
    \/ BuildGraph
    \/ \E m \in Selectors : CallCalcAri(m)
    \/ LoopHead
    \/ TrialGraph
    \/ Dispatch
    \/ Concatenate
    \/ Cluster
    \/ Score
    \/ Record
    \/ Return
    \/ ConcatResults
    \/ GroupBy

Spec == Init /\ [][Next]_vars

\* the interpreter always executes the next statement of the running cell
SpecFair == Spec /\ WF_vars(Next)

\* ================================================================== claims
InCall == Len(called) > 0
Range(f) == {f[j] : j \in DOMAIN f}
AllSame(rs) == \A j \in DOMAIN rs : rs[j].ari = rs[1].ari
\* the quotient q equals the whole number s
RatEq(q, s) == q.num = s * q.den
\* the quotients p and q are equal
RatSame(p, q) == p.num * q.den = q.num * p.den
\* r is s rounded to a whole number of hundredths, ties to the even one
IsRounded(r, p) ==
    /\ r.den = 1
    /\ r.num % 10 = 0
    /\ LET d == r.num * p.den - p.num
       IN  /\ d <= 5 * p.den
           /\ -d <= 5 * p.den
           /\ (d = 5 * p.den \/ -d = 5 * p.den) => (r.num \div 10) % 2 = 0

\* C1: for a recognized selector the running call holds one record per
\* completed trial, every record carries the call's selector, and a call
\* that returns delivers exactly n_sims records carrying its selector.
C1_OneRecordPerTrial ==
    /\ embed_method \in Recognized =>
          /\ Len(rows) = i
          /\ i <= n_sims
          /\ \A j \in 1..Len(rows) : rows[j].test = embed_method
          /\ pc = "ca_return" => Len(rows) = n_sims
    /\ \A c \in 1..Len(dfs) :
          called[c] \in Recognized =>
             /\ Len(dfs[c].records) = n_sims
             /\ \A j \in 1..n_sims : dfs[c].records[j].test = called[c]

C1_Witness ==
    /\ Len(dfs) = CallsPerCell
    /\ n_sims >= 2
    /\ \A c \in 1..Len(dfs) : called[c] \in Recognized

\* C2: a call with a selector outside 'ase', 'lse', 'sklearn' never reaches
\* the clustering step and never ends in the unbound-variable error: it
\* raises an explicit unsupported-method error instead.
C2_UnsupportedMethodRaises ==
    (InCall /\ embed_method \notin Recognized) =>
        /\ pc # "ca_cluster"
        /\ error # "UnboundLocalError"

\* C3: once built, the label list has exactly n_verts entries, 0 for the
\* first half of the samples and 1 for the rest.
C3_LabelsMatchSampleCount ==
    pc # "cell_labels" =>
        /\ Len(labels_true) = n_verts
        /\ \A j \in 1..Len(labels_true) :
              labels_true[j] = IF j <= Half(n_verts) THEN 0 ELSE 1

\* C4 as stated: in every variant, a run whose n_sims trials all scored s is
\* reported with mean exactly s.
C4_MeanOfIdenticalTrials ==
    pc = "done" =>
        \A c \in 1..Len(dfs) :
            AllSame(dfs[c].records) =>
                RatEq(means[called[c]], dfs[c].records[1].ari)

\* C4 amended: a run whose n_sims trials all scored s is reported with mean
\* exactly s in the block-model notebooks, and with s rounded to two
\* decimals in the Gaussian notebook.
C4_MeanOfIdenticalTrialsRounded ==
    pc = "done" =>
        \A c \in 1..Len(dfs) :
            AllSame(dfs[c].records) =>
                LET s == dfs[c].records[1].ari
                IN  IF variant = "gauss"
                    THEN IsRounded(means[called[c]], [num |-> s, den |-> 1])
                    ELSE RatEq(means[called[c]], s)

C4_Witness ==
    /\ pc = "done"
    /\ n_sims >= 2
    /\ variant = "gauss"
    /\ \E c \in 1..Len(dfs) :
          /\ AllSame(dfs[c].records)
          /\ ~RatEq(means[called[c]], dfs[c].records[1].ari)

\* C5: the matrix handed to the clustering step has one row per sample of
\* the graph and as many rows as there are ground-truth labels.
C5_RowsMatchSamplesAndLabels ==
    (pc = "ca_cluster" /\ Xhat.bound) =>
        /\ Xhat.rows = kn_graph.rows
        /\ Xhat.rows = Len(labels_true)

\* C6 as stated: the reported table has one entry per method that was run,
\* each the arithmetic mean of that method's own n_sims scores.
C6_MeanPerMethod ==
    pc = "done" =>
        /\ DOMAIN means = Range(called)
        /\ \A c \in 1..Len(dfs) :
              RatSame(means[called[c]],
                      [num |-> SumAri(dfs[c].records), den |-> n_sims])

\* C6 amended: one entry per method that was run, each the arithmetic mean
\* of that method's own n_sims scores, rounded to two decimals in the
\* Gaussian notebook.
C6_MeanPerMethodRounded ==
    pc = "done" =>
        /\ DOMAIN means = Range(called)
        /\ \A c \in 1..Len(dfs) :
              LET own == [num |-> SumAri(dfs[c].records), den |-> n_sims]
              IN  IF variant = "gauss"
                  THEN IsRounded(means[called[c]], own)
                  ELSE RatSame(means[called[c]], own)

C6_Witness ==
    /\ pc = "done"
    /\ n_sims >= 2
    /\ \E c, d \in 1..Len(dfs) :
          SumAri(dfs[c].records) # SumAri(dfs[d].records)
    /\ \E c \in 1..Len(dfs) : ~AllSame(dfs[c].records)

\* C7: the collection of a call holds only that call's records (the calls of
\* a cell use distinct selectors, so a record is known by its method), each
\* trial works on an embedding computed in that trial, and a frame that was
\* returned is never changed by a later call.
C7_OwnRecordsOnly ==
    /\ [](/\ InCall => \A j \in 1..Len(rows) : rows[j].test = embed_method
          /\ \A c \in 1..Len(dfs) :
                \A j \in 1..Len(dfs[c].records) :
                    dfs[c].records[j].test = called[c]
          /\ (embed_method \in Recognized
                /\ pc \in {"ca_concat", "ca_cluster", "ca_score", "ca_record"})
                => embedCalls = i + 1)
    /\ [][\A c \in 1..Len(dfs) : dfs'[c] = dfs[c]]_vars

C7_Witness ==
    /\ Len(dfs) >= 1
    /\ dfs[1].records # <<>>
    /\ pc = "ca_record"
    /\ i >= 1

\* C8 as stated: the neighbour count is sqrt(n_verts) rounded to the nearest
\* integer.
C8_NeighboursRoundSqrt ==
    kn_graph.built =>
        /\ (2 * kn_graph.k - 1) * (2 * kn_graph.k - 1) <= 4 * n_verts
        /\ 4 * n_verts < (2 * kn_graph.k + 1) * (2 * kn_graph.k + 1)

\* C8 amended: the neighbour count is sqrt(n_verts) truncated to an integer.
C8_NeighboursFloorSqrt ==
    kn_graph.built =>
        /\ kn_graph.k * kn_graph.k <= n_verts
        /\ n_verts < (kn_graph.k + 1) * (kn_graph.k + 1)

C8_Witness ==
    /\ kn_graph.built
    /\ n_verts = 250
    /\ kn_graph.k = 15
    /\ 4 * n_verts >= (2 * kn_graph.k + 1) * (2 * kn_graph.k + 1)

\* C10: with n_sims >= 1 and an unrecognized selector, no embedding routine
\* and no concatenation is invoked, no trial completes, no record is appended
\* and no frame is returned; unless a collaborator raised first, the run ends
\* in the first trial at the clustering step, on the unbound Xhat.
C10_UnrecognizedFailsAtCluster ==
    (InCall /\ n_sims >= 1 /\ embed_method \notin Recognized) =>
        /\ embedCalls = 0
        /\ concatCalls = 0
        /\ ~Xhat.bound
        /\ i = 0
        /\ rows = <<>>
        /\ Len(dfs) < Len(called)
        /\ pc \in {"ca_loop", "ca_graph", "ca_embed", "ca_concat", "ca_cluster",
                   "failed"}
        /\ pc = "failed" => error \in {"UnboundLocalError", "CollaboratorError"}
        /\ (pc = "failed" /\ variant # "resample") => error = "UnboundLocalError"

C10_Witness ==
    /\ InCall
    /\ n_sims >= 1
    /\ embed_method \notin Recognized
    /\ pc = "failed"
    /\ error = "UnboundLocalError"

\* C11: from the clustering step to the end of the trial, Xhat is, for 'ase'
\* and 'lse', the row-space embedding followed by the column-space embedding
\* side by side (same rows, 2 + 2 columns) after exactly one concatenation
\* per trial, and for 'sklearn' the single 2-column embedding, never
\* concatenated.
C11_ClusterInput ==
    /\ (pc \in {"ca_cluster", "ca_score", "ca_record"}
          /\ embed_method \in {"ase", "lse"}) =>
          /\ Xhat.parts = <<"X", "Y">>
          /\ Xhat.cols = NComponents + NComponents
          /\ Xhat.rows = kn_graph.rows
          /\ Xhat.rows = Yhat.rows
          /\ concatCalls = i + 1
    /\ (pc \in {"ca_cluster", "ca_score", "ca_record"}
          /\ embed_method = "sklearn") =>
          /\ Xhat.parts = <<"S">>
          /\ Xhat.cols = NComponents
          /\ Xhat.rows = kn_graph.rows
    /\ embed_method = "sklearn" => concatCalls = 0
    /\ (pc = "ca_loop" /\ embed_method \in {"ase", "lse"}) => concatCalls = i

C11_Witness ==
    /\ pc = "ca_cluster"
    /\ embed_method = "lse"
    /\ i >= 1
    /\ Xhat.parts = <<"X", "Y">>
    /\ \E c \in 1..Len(called) : called[c] = "sklearn"

\* the trials begun so far in the cell, the running one included
TrialsBegun == Len(dfs) * n_sims + i + 1
InTrial == pc \in {"ca_concat", "ca_cluster", "ca_score", "ca_record"}

\* C12 as stated: in every variant each trial has its own graph construction,
\* and its embedding is computed from the graph built in that trial.
C12_GraphPerTrial ==
    /\ pc = "ca_embed" =>
          /\ graphBuilds = TrialsBegun
          /\ kn_graph.gen = TrialsBegun
    /\ (InTrial /\ Xhat.bound) => Xhat.graph = TrialsBegun

\* C12 amended: that holds in the notebook whose calc_ari rebuilds the graph
\* inside the loop; in the two notebooks that pass kn_graph to calc_ari the
\* graph is constructed once per cell and every trial's embedding is computed
\* from that one construction.
C12_GraphPerTrialOrPerCell ==
    LET expected == IF variant = "resample" THEN TrialsBegun ELSE 1
    IN  /\ pc = "ca_embed" =>
              /\ graphBuilds = expected
              /\ kn_graph.gen = expected
        /\ (InTrial /\ Xhat.bound) => Xhat.graph = expected

C12_Witness ==
    /\ variant = "resample"
    /\ pc = "ca_cluster"
    /\ Len(dfs) >= 1
    /\ i >= 1
    /\ Xhat.graph = TrialsBegun
    /\ graphBuilds >= 4

\* C13: where calc_ari receives kn_graph, the graph is built exactly once,
\* before the first call; no step from the first call on changes it; every
\* embedding of every trial of every run is computed from that construction;
\* and once built the ground-truth labels are never changed, in any variant.
C13_GraphBuiltOnceAndReused ==
    /\ []((variant # "resample" /\ InCall) =>
             /\ kn_graph.built
             /\ graphBuilds = 1
             /\ kn_graph.gen = 1
             /\ Xhat.bound => Xhat.graph = 1
             /\ Yhat.bound => Yhat.graph = 1)
    /\ [][(variant # "resample" /\ pc # "cell_graph") => kn_graph' = kn_graph]_vars
    /\ [][pc # "cell_labels" => labels_true' = labels_true]_vars

C13_Witness ==
    /\ variant = "block"
    /\ Len(dfs) = 2
    /\ pc = "ca_cluster"
    /\ i >= 1
    /\ Xhat.graph = 1
    /\ labels_true # <<>>

\* the step that follows each step of a trial when nothing is raised
StepAfter(p) ==
    CASE p = "ca_graph" -> "ca_embed"
      [] p = "ca_embed" -> "ca_concat"
      [] p = "ca_concat" -> "ca_cluster"
      [] p = "ca_cluster" -> "ca_score"
      [] p = "ca_score" -> "ca_record"
      [] p = "ca_record" -> "ca_loop"
      [] OTHER -> "none"
TrialSteps ==
    {"ca_graph", "ca_embed", "ca_concat", "ca_cluster", "ca_score", "ca_record"}
TrialBegins ==
    pc = "ca_loop" /\ pc' = IF variant = "resample" THEN "ca_graph" ELSE "ca_embed"
CallBegins == pc = "cell_call" /\ pc' = "ca_loop"

\* C14: within a trial the steps follow one another in the order obtain
\* structure, embed, concatenate, cluster, score, record; a trial begins only
\* at the loop head, when every earlier trial of the call has been recorded;
\* a call begins only when every earlier call has returned with all its
\* n_sims trials done; at most one call is running at any time.
C14_StrictlySequential ==
    /\ [](Len(called) - Len(dfs) \in {0, 1})
    /\ [][/\ (pc \in TrialSteps /\ pc' # "failed") => pc' = StepAfter(pc)
          /\ pc' \in TrialSteps =>
                (TrialBegins \/ (pc \in TrialSteps /\ pc' = StepAfter(pc)))
          /\ TrialBegins => (Len(rows) = i /\ i < n_sims)
          /\ i' # i => ((pc = "ca_record" /\ i' = i + 1 /\ Len(rows') = i')
                          \/ (CallBegins /\ i' = 0))
          /\ pc' = "ca_loop" => (CallBegins \/ pc = "ca_record")
          /\ CallBegins =>
                /\ Len(dfs) = Len(called)
                /\ \A c \in 1..Len(dfs) : Len(dfs[c].records) = n_sims
          /\ Len(dfs') # Len(dfs) => (pc = "ca_return" /\ i = n_sims)]_vars

C14_Witness ==
    /\ pc = "ca_embed"
    /\ Len(dfs) = 2
    /\ Len(called) = 3
    /\ i = 1
    /\ Len(rows) = 1
    /\ n_sims = 2

\* the cell ended by an exception raised inside a calc_ari call
FailedInCall == pc = "failed" /\ InCall /\ error # "KeyError"

\* C15: once a collaborator has raised, nothing more runs (no retry, no
\* later trial, no later call); the step that raises appends nothing and
\* returns nothing; the frame of the failed call is never delivered, so the
\* records of its earlier trials are lost and no means are reported.
C15_FailureAbortsRun ==
    /\ [][error = "none"]_vars
    /\ [][pc' = "failed" =>
             /\ error' # "none"
             /\ rows' = rows /\ i' = i /\ dfs' = dfs /\ means' = means]_vars
    /\ [](/\ error # "none" <=> pc = "failed"
          /\ FailedInCall =>
                /\ Len(dfs) = Len(called) - 1
                /\ ari_df = NoFrame
                /\ means = <<>>)

C15_Witness ==
    /\ FailedInCall
    /\ error = "CollaboratorError"
    /\ i >= 1
    /\ i < n_sims
    /\ Len(rows) = i
    /\ Len(dfs) = Len(called) - 1

\* the block of sample r, counted from 1: the first int(n/2) samples are block 1
BlockOf(r) == IF r <= Half(n_verts) THEN 1 ELSE 2

\* C16 (under SpecP): after the four assignments every cell of P was assigned
\* exactly once and holds the block value of its row's and column's blocks,
\* for every n_verts >= 2, even or odd, and every block matrix.
C16_QuadrantsCoverP ==
    pc = "p_filled" =>
        /\ DOMAIN P = 1..n_verts
        /\ \A r \in 1..n_verts :
              /\ DOMAIN P[r] = 1..n_verts
              /\ \A c \in 1..n_verts :
                    /\ P[r][c].v = B[BlockOf(r)][BlockOf(c)]
                    /\ P[r][c].w = 1

C16_Witness ==
    /\ pc = "p_filled"
    /\ n_verts = 5
    /\ B = <<<<11, 0>>, <<79, 11>>>>
    /\ P[2][3].v = 0
    /\ P[3][2].v = 79

\* C17: a call with n_sims = 0 and an unrecognized selector never enters the
\* loop body (no graph, dispatch, concatenation, clustering or scoring step),
\* raises nothing, and returns the frame of an empty list; the only error the
\* cell can still meet is the later groupby on three empty frames.
C17_ZeroTrialsNoError ==
    (InCall /\ n_sims = 0 /\ embed_method \notin Recognized) =>
        /\ pc \notin TrialSteps
        /\ embedCalls = 0
        /\ concatCalls = 0
        /\ ~Xhat.bound
        /\ i = 0
        /\ rows = <<>>
        /\ pc \in {"ca_loop", "ca_return", "cell_call", "cell_concat",
                   "cell_groupby"} => error = "none"
        /\ Len(dfs) = Len(called) => dfs[Len(dfs)] = DataFrame(<<>>)
        /\ pc = "failed" => (error = "KeyError" /\ Len(dfs) = CallsPerCell)

C17_Witness ==
    /\ InCall
    /\ n_sims = 0
    /\ embed_method \notin Recognized
    /\ Len(called) = 1
    /\ Len(dfs) = 1
    /\ dfs[1].records = <<>>
    /\ pc = "cell_call"
    /\ error = "none"

\* C18: for every n_verts >= 2, odd ones included, the latent-position matrix
\* the graph is built from has as many rows as there are ground-truth labels.
C18_LatentRowsMatchLabels ==
    kn_graph.built =>
        /\ kn_graph.rows = LatRows(variant, n_verts)
        /\ kn_graph.rows = Len(labels_true)

\* C19: in the notebook that rebuilds the graph inside the loop, what the
\* graph is computed from is the pair (n_verts, B) of the call and nothing
\* else, so every rebuild, in a later trial or in a later run with another
\* method, yields the structure the previous one yielded.
C19_SameStructureEveryTrial ==
    /\ []((variant = "resample" /\ kn_graph.built) =>
             /\ kn_graph.content.kind = "block"
             /\ kn_graph.content.n = n_verts
             /\ kn_graph.content.B = B
             /\ kn_graph.content.draw = 0)
    /\ [][(variant = "resample" /\ kn_graph.built) =>
             /\ kn_graph'.content = kn_graph.content
             /\ kn_graph'.rows = kn_graph.rows
             /\ kn_graph'.k = kn_graph.k]_vars

C19_Witness ==
    /\ variant = "resample"
    /\ Len(called) = 3
    /\ i = 1
    /\ pc = "ca_embed"
    /\ kn_graph.gen = graphBuilds
    /\ graphBuilds >= 5
    /\ kn_graph.content.B = B_core

\* C20 (under SpecFair): a call with a recognized selector that has begun
\* ends: it returns to the cell, or an exception ends the cell; the loop bound
\* never changes, no more than n_sims trials are completed, and the call
\* returns only after exactly n_sims of them.
C20_CallTerminates ==
    /\ [][n_sims' = n_sims]_vars
    /\ [](embed_method \in Recognized =>
             /\ i <= n_sims
             /\ pc = "ca_return" => (i = n_sims /\ Len(rows) = n_sims))
    /\ (pc = "ca_loop" /\ i = 0 /\ embed_method \in Recognized)
          ~> (pc \in {"cell_call", "cell_concat", "failed"})

C20_Witness ==
    /\ pc = "ca_return"
    /\ embed_method \in Recognized
    /\ i = n_sims
    /\ n_sims >= 2
    /\ Len(called) = 2

====
